---- MODULE Spec2Model ----
(***************************************************************************)
(* Model of src/nodes.py (comfyui-uno): the reference-image preprocessing  *)
(* (preprocess_ref), the conditioning node (UnoConditioning.append) and    *)
(* the weight merge of the model loader (UnoFluxModelLoader.loadmodel).    *)
(***************************************************************************)
EXTENDS Integers, Sequences, FiniteSets

VARIABLES
    \* ---- preprocess_ref (src/nodes.py:160-188)
    pc_ref, image_w, image_h, long_size, new_w, new_h,
    target_w, target_h, left, top, right, bottom, out_w, out_h,
    \* ---- UnoConditioning.append (src/nodes.py:122-157)
    pc_app,          \* position in append
    conditioning,    \* the conditioning argument
    slots,           \* ref_image_1 .. ref_image_4
    ref_img,         \* the local list ref_img
    app_long_size,   \* the local long_size
    idx,             \* position of the running loop in ref_img
    acc,             \* the list the comprehension of line 150 is building
    preprocessed,    \* log of the preprocess_ref calls: image and long_size
    encoded,         \* log of the vae.encode calls: the image passed
    c,               \* the conditioning returned
    calls,           \* number of append calls so far
    \* ---- UnoFluxModelLoader.loadmodel (src/nodes.py:55-99)
    pc_load,         \* position in loadmodel
    base_sd,         \* model.model.state_dict_for_saving(), as extracted
    lora_sd,         \* the UNO LoRA file, as loaded
    sd,              \* the local sd
    uno_sd,          \* the local uno_sd
    key_prefix,      \* the detected prefix
    unet_dtype,      \* model_config.unet_config['dtype']
    loaded           \* the state dict handed to model.load_state_dict

refVars == <<pc_ref, image_w, image_h, long_size, new_w, new_h,
             target_w, target_h, left, top, right, bottom, out_w, out_h>>

appVars == <<pc_app, conditioning, slots, ref_img, app_long_size, idx, acc,
             preprocessed, encoded, c, calls>>

loadVars == <<pc_load, base_sd, lora_sd, sd, uno_sd, key_prefix, unet_dtype,
              loaded>>

vars == <<refVars, appVars, loadVars>>

(***************************************************************************)
(* Bounds of the model.                                                    *)
(***************************************************************************)
\* largest width / height of an input image
MaxDim == 49
\* largest number of entries of a conditioning
MaxCond == 2
\* largest number of chained append calls
MaxCalls == 2
\* largest number of tensors of a state dict
MaxKeys == 3

(***************************************************************************)
(* Python float arithmetic (IEEE-754 binary64, round to nearest even) on   *)
(* positive values.  A float is [sig, exp] with sig a sequence of MantBits *)
(* bits, most significant first and leading bit 1; its value is            *)
(* sig * 2^exp.                                                            *)
(***************************************************************************)
MantBits == 53

RECURSIVE NatBits(_)
\* binary digits of a natural, most significant first, <<>> for 0
NatBits(n) == IF n = 0 THEN <<>> ELSE Append(NatBits(n \div 2), n % 2)

RECURSIVE BitsNat(_)
\* the natural a (short) bit sequence denotes
BitsNat(b) ==
    IF Len(b) = 0 THEN 0
    ELSE 2 * BitsNat(SubSeq(b, 1, Len(b) - 1)) + b[Len(b)]

\* b with zeros in front, up to length n
Pad(b, n) ==
    [i \in 1..n |-> IF i <= n - Len(b) THEN 0 ELSE b[i - (n - Len(b))]]

\* the eight bits of n < 256
Byte(n) == Pad(NatBits(n), 8)

\* TRUE iff some bit of b is 1
AnyBit(b) == \E i \in 1..Len(b) : b[i] = 1

\* b from its first 1 bit on
Normalise(b) ==
    LET k == CHOOSE i \in 1..Len(b) : b[i] = 1 /\ ~AnyBit(SubSeq(b, 1, i - 1))
    IN SubSeq(b, k, Len(b))

\* b + 1 on a bit sequence; one bit longer when b is all ones
IncBits(b) ==
    IF \A i \in 1..Len(b) : b[i] = 1
    THEN <<1>> \o [i \in 1..Len(b) |-> 0]
    ELSE LET k == CHOOSE i \in 1..Len(b) :
                      b[i] = 0 /\ \A j \in (i + 1)..Len(b) : b[j] = 1
         IN [i \in 1..Len(b) |-> IF i < k THEN b[i] ELSE IF i = k THEN 1 ELSE 0]

\* The float nearest to (b + s) * 2^e, ties to even: b is a bit sequence with
\* leading bit 1 and at least MantBits bits, and sticky tells whether the
\* fraction s in [0, 1) is nonzero.
RoundNearestEven(b, sticky, e) ==
    LET keep == SubSeq(b, 1, MantBits)
        drop == SubSeq(b, MantBits + 1, Len(b))
        exp == e + Len(drop)
        up == IF Len(drop) = 0 THEN FALSE
              ELSE /\ drop[1] = 1
                   /\ \/ AnyBit(SubSeq(drop, 2, Len(drop)))
                      \/ sticky
                      \/ keep[MantBits] = 1
        inc == IncBits(keep)
    IN IF ~up THEN [sig |-> keep, exp |-> exp]
       ELSE IF Len(inc) > MantBits
            THEN [sig |-> SubSeq(inc, 1, MantBits), exp |-> exp + 1]
            ELSE [sig |-> inc, exp |-> exp]

RECURSIVE DivChunks(_, _, _)
\* long division, eight bits at a time: the next 8 * k bits of the quotient
\* after the binary point, and the remainder left (r < b)
DivChunks(r, b, k) ==
    IF k = 0 THEN [bits |-> <<>>, rem |-> r]
    ELSE LET rest == DivChunks((r * 256) % b, b, k - 1)
         IN [bits |-> Byte((r * 256) \div b) \o rest.bits, rem |-> rest.rem]

\* a / b for integers a, b >= 1 (Python true division, correctly rounded):
\* the quotient is developed far enough to hold MantBits significant bits
\* and a rounding bit, the remainder deciding the rest
FloatDiv(a, b) ==
    LET k == (MantBits + Len(NatBits(b))) \div 8 + 1
        q == DivChunks(a % b, b, k)
    IN RoundNearestEven(Normalise(NatBits(a \div b) \o q.bits),
                        q.rem # 0, 0 - 8 * k)

RECURSIVE MulChunks(_, _, _)
\* b * h + carry as a bit sequence, eight bits at a time from the low end
\* (Len(b) a multiple of 8, h a small natural)
MulChunks(b, h, carry) ==
    IF Len(b) = 0 THEN NatBits(carry)
    ELSE LET n == Len(b)
             t == BitsNat(SubSeq(b, n - 7, n)) * h + carry
         IN MulChunks(SubSeq(b, 1, n - 8), h, t \div 256) \o Byte(t % 256)

\* f * h for a float f and an integer h >= 1 (h converts to float exactly,
\* the exact product is rounded once)
FloatMulInt(f, h) ==
    LET w == ((MantBits + 7) \div 8) * 8
    IN RoundNearestEven(Normalise(MulChunks(Pad(f.sig, w), h, 0)), FALSE, f.exp)

\* int(f): truncation of a positive float whose value is below 2^MantBits
FloatToInt(f) ==
    IF MantBits + f.exp <= 0 THEN 0
    ELSE BitsNat(SubSeq(f.sig, 1, MantBits + f.exp))

(***************************************************************************)
(* preprocess_ref                                                          *)
(***************************************************************************)
\* the values of long_size preprocess_ref is applied to
LongSizes == {40, 320, 512}

\* int((long_size / long_side) * short_side)
ScaleShort(ls, long_side, short_side) ==
    FloatToInt(FloatMulInt(FloatDiv(ls, long_side), short_side))

\* <<new_w, new_h>> of the resize
NewSize(w, h, ls) ==
    IF w >= h THEN <<ls, ScaleShort(ls, w, h)>>
    ELSE <<ScaleShort(ls, h, w), ls>>

\* Image.resize accepts only sizes of at least 1 x 1
ResizeAccepts(nw, nh) == nw >= 1 /\ nh >= 1

TargetDimRoundsUp(n) == ((n + 15) \div 16) * 16

\* new // 16 * 16
TargetDim(n) == (n \div 16) * 16

CropStartCeil(n, t) == (n - t + 1) \div 2

\* (new - target) // 2
CropStart(n, t) == (n - t) \div 2

\* preprocess_ref as a function of the image size: whether resize raised,
\* and the size of the image returned
PreprocessRef(w, h, ls) ==
    LET n == NewSize(w, h, ls)
        tw == TargetDim(n[1])
        th == TargetDim(n[2])
        l == CropStart(n[1], tw)
        t == CropStart(n[2], th)
    IN [ok |-> ResizeAccepts(n[1], n[2]),
        w |-> (l + tw) - l,
        h |-> (t + th) - t]

(***************************************************************************)
(* UnoConditioning.append                                                  *)
(***************************************************************************)
Slots == 1..4

\* an argument left at its default
None == [id |-> 0, batch |-> 0, h |-> 0, w |-> 0]

\* shapes [B, H, W, 3] of the images supplied
ImageShapes == {<<1, 49, 49>>, <<1, 1, 400>>, <<2, 49, 49>>}

\* the image tensors slot i may hold; id tells the tensors apart
ImagesOf(i) ==
    {[id |-> i, batch |-> s[1], h |-> s[2], w |-> s[3]] : s \in ImageShapes}

SlotValues == [Slots -> {None} \cup UNION {ImagesOf(i) : i \in Slots}]

\* the arguments of a call: slot i holds None or an image
SlotArgs == {f \in SlotValues : \A i \in Slots : f[i] = None \/ f[i].id = i}

\* a conditioning of the host: a list of [tensor, options] entries
FreshConditioning(n) ==
    [i \in 1..n |-> [t0 |-> i, has_ref |-> FALSE, ref_img |-> <<>>]]

RECURSIVE FilterFrom(_, _)
FilterFrom(f, i) ==
    IF i > 4 THEN <<>>
    ELSE IF f[i] # None THEN <<f[i]>> \o FilterFrom(f, i + 1)
    ELSE FilterFrom(f, i + 1)

FilterNoneReversed(f) ==
    LET l == FilterFrom(f, 1) IN [i \in 1..Len(l) |-> l[Len(l) + 1 - i]]

\* lines 123-124: [r for r in [ref_image_1 .. ref_image_4] if r is not None]
FilterNone(f) == FilterFrom(f, 1)

AssertHoldsFirstOnly(l, i) == i > 1 \/ l[i].batch = 1

\* line 127: assert r.shape[0] == 1, for the i-th element of the list
AssertHolds(l, i) == l[i].batch = 1

LongSizeOffByOne(n) == IF n <= 2 THEN 512 ELSE 320

\* line 130: 512 if len(ref_img) <= 1 else 320
LongSize(n) == IF n <= 1 THEN 512 ELSE 320

ShouldSetAlways(l) == Len(l) >= 0

\* line 153: len(ref_img) > 0
ShouldSet(l) == Len(l) > 0

\* node_helpers.conditioning_set_values(conditioning, {"ref_img": val}): a
\* new list whose entries are copies with the option ref_img set to val
ConditioningSetValues(cond, val) ==
    [i \in 1..Len(cond) |->
        [t0 |-> cond[i].t0, has_ref |-> TRUE, ref_img |-> val]]

(***************************************************************************)
(* UnoFluxModelLoader.loadmodel.  A state dict is a Python dict: a list of *)
(* [k, v] items in insertion order, the keys distinct.  A key is the list  *)
(* of its dot-separated parts, a tensor v is [src, name, dtype, device],   *)
(* src and name telling which file and key its data came from.             *)
(***************************************************************************)
DTypes == {"bf16", "fp8"}
Devices == {"cpu", "cuda"}

\* keys of the base model's state dict
BaseKeys == {<<"model", "diffusion_model", "a">>,
             <<"model", "diffusion_model", "b">>,
             <<"net", "a">>}

\* keys of the LoRA file
LoraKeys == {<<"a">>, <<"lora_c">>}

\* the prefixes unet_prefix_from_state_dict chooses among
Prefixes == {<<"model", "diffusion_model">>, <<"net">>, <<"model">>}

Tensors(src, k) ==
    {[src |-> src, name |-> k, dtype |-> t, device |-> d] :
        t \in DTypes, d \in Devices}

RECURSIVE Dicts(_, _, _)
\* the state dicts of at most n items over the keys ks, in every order
Dicts(src, ks, n) ==
    IF n = 0 \/ ks = {} THEN {<<>>}
    ELSE {<<>>} \cup
         UNION {{<<[k |-> k, v |-> t]>> \o rest :
                    t \in Tensors(src, k), rest \in Dicts(src, ks \ {k}, n - 1)} :
                k \in ks}

Keys(d) == {d[i].k : i \in 1..Len(d)}

\* d[key]
Get(d, key) == d[CHOOSE i \in 1..Len(d) : d[i].k = key].v

\* key.startswith(prefix)
StartsWith(key, prefix) ==
    /\ Len(key) >= Len(prefix)
    /\ SubSeq(key, 1, Len(prefix)) = prefix

\* key[len(prefix):]
Strip(key, prefix) == SubSeq(key, Len(prefix) + 1, Len(key))

RECURSIVE PrefixReplaceFrom(_, _, _)
PrefixReplaceFrom(d, prefix, i) ==
    IF i > Len(d) THEN <<>>
    ELSE IF StartsWith(d[i].k, prefix)
         THEN <<[k |-> Strip(d[i].k, prefix), v |-> d[i].v]>>
              \o PrefixReplaceFrom(d, prefix, i + 1)
         ELSE PrefixReplaceFrom(d, prefix, i + 1)

\* comfy.utils.state_dict_prefix_replace(d, {prefix: ""}, filter_keys=True):
\* a new dict of the items whose key starts with prefix, the prefix removed
StateDictPrefixReplace(d, prefix) == PrefixReplaceFrom(d, prefix, 1)

\* v.to(dtype=dtype, device=device)
To(v, dtype, device) == [v EXCEPT !.dtype = dtype, !.device = device]

\* line 84: {k: v.to(dtype=dtype, device=device) for k, v in uno_sd.items()}
ConvertAll(d, dtype, device) ==
    [i \in 1..Len(d) |-> [k |-> d[i].k, v |-> To(d[i].v, dtype, device)]]

\* d[item.k] = item.v
SetItem(d, item) ==
    IF item.k \in Keys(d)
    THEN [i \in 1..Len(d) |-> IF d[i].k = item.k THEN item ELSE d[i]]
    ELSE Append(d, item)

RECURSIVE UpdateKeepsOld(_, _)
UpdateKeepsOld(d, u) ==
    IF Len(u) = 0 THEN d
    ELSE UpdateKeepsOld(IF u[1].k \in Keys(d) THEN d ELSE Append(d, u[1]),
                        Tail(u))

RECURSIVE Update(_, _)
\* line 87: d.update(u)
Update(d, u) ==
    IF Len(u) = 0 THEN d ELSE Update(SetItem(d, u[1]), Tail(u))

\* nothing of loadmodel is running
LoadIdle ==
    /\ pc_load = "idle"
    /\ base_sd = <<>>
    /\ lora_sd = <<>>
    /\ sd = <<>>
    /\ uno_sd = <<>>
    /\ key_prefix = <<>>
    /\ unet_dtype = "unset"
    /\ loaded = <<>>

\* nothing of append is running
AppIdle ==
    /\ pc_app = "idle"
    /\ conditioning = <<>>
    /\ slots = [i \in Slots |-> None]
    /\ ref_img = <<>>
    /\ app_long_size = 0
    /\ idx = 0
    /\ acc = <<>>
    /\ preprocessed = <<>>
    /\ encoded = <<>>
    /\ c = <<>>
    /\ calls = 0

\* nothing of preprocess_ref is running
RefIdle ==
    /\ pc_ref = "idle"
    /\ image_w = 0 /\ image_h = 0 /\ long_size = 0
    /\ new_w = 0 /\ new_h = 0
    /\ target_w = 0 /\ target_h = 0
    /\ left = 0 /\ top = 0 /\ right = 0 /\ bottom = 0
    /\ out_w = 0 /\ out_h = 0

\* a first call of append, on a conditioning without ref_img
InitAppend ==
    /\ RefIdle
    /\ LoadIdle
    /\ pc_app = "filter"
    /\ conditioning \in {FreshConditioning(n) : n \in 0..MaxCond}
    /\ slots \in SlotArgs
    /\ ref_img = <<>>
    /\ app_long_size = 0
    /\ idx = 0
    /\ acc = <<>>
    /\ preprocessed = <<>>
    /\ encoded = <<>>
    /\ c = <<>>
    /\ calls = 1

\* lines 123-124
AppendFilter ==
    /\ pc_app = "filter"
    /\ ref_img' = FilterNone(slots)
    /\ idx' = 1
    /\ pc_app' = "assert"
    /\ UNCHANGED <<conditioning, slots, app_long_size, acc, preprocessed,
                   encoded, c, calls>>
    /\ UNCHANGED <<refVars, loadVars>>

\* lines 126-127: one round of the loop of assertions
AppendAssert ==
    /\ pc_app = "assert"
    /\ IF idx > Len(ref_img)
       THEN pc_app' = "long_size" /\ idx' = idx
       ELSE IF AssertHolds(ref_img, idx)
            THEN pc_app' = "assert" /\ idx' = idx + 1
            ELSE pc_app' = "failed" /\ idx' = idx
    /\ UNCHANGED <<conditioning, slots, ref_img, app_long_size, acc,
                   preprocessed, encoded, c, calls>>
    /\ UNCHANGED <<refVars, loadVars>>

\* line 130
AppendLongSize ==
    /\ pc_app = "long_size"
    /\ app_long_size' = LongSize(Len(ref_img))
    /\ idx' = 1
    /\ acc' = <<>>
    /\ pc_app' = "preprocess"
    /\ UNCHANGED <<conditioning, slots, ref_img, preprocessed, encoded, c,
                   calls>>
    /\ UNCHANGED <<refVars, loadVars>>

\* lines 132-150: preprocess(r[0]) for the next r of ref_img, and the
\* assignment of the finished list
AppendPreprocess ==
    /\ pc_app = "preprocess"
    /\ IF idx > Len(ref_img)
       THEN /\ ref_img' = acc
            /\ pc_app' = "set"
            /\ UNCHANGED <<idx, acc, preprocessed, encoded>>
       ELSE LET r == ref_img[idx]
                x == PreprocessRef(r.w, r.h, app_long_size)
            IN /\ preprocessed' = Append(preprocessed,
                                   [id |-> r.id, long_size |-> app_long_size])
               /\ IF x.ok
                  THEN /\ encoded' = Append(encoded,
                                      [id |-> r.id, h |-> x.h, w |-> x.w])
                       /\ acc' = Append(acc, [of |-> r.id, h |-> x.h, w |-> x.w])
                       /\ idx' = idx + 1
                       /\ pc_app' = "preprocess"
                  ELSE /\ pc_app' = "raised"
                       /\ UNCHANGED <<encoded, acc, idx>>
               /\ UNCHANGED ref_img
    /\ UNCHANGED <<conditioning, slots, app_long_size, c, calls>>
    /\ UNCHANGED <<refVars, loadVars>>

\* lines 153-157
AppendReturn ==
    /\ pc_app = "set"
    /\ c' = IF ShouldSet(ref_img)
            THEN ConditioningSetValues(conditioning, ref_img)
            ELSE conditioning
    /\ pc_app' = "done"
    /\ UNCHANGED <<conditioning, slots, ref_img, app_long_size, idx, acc,
                   preprocessed, encoded, calls>>
    /\ UNCHANGED <<refVars, loadVars>>

\* the host runs a further UnoConditioning node on the conditioning the
\* previous one returned
AppendCall ==
    /\ pc_app = "done"
    /\ calls < MaxCalls
    /\ conditioning' = c
    /\ slots' \in SlotArgs
    /\ ref_img' = <<>>
    /\ app_long_size' = 0
    /\ idx' = 0
    /\ acc' = <<>>
    /\ preprocessed' = <<>>
    /\ encoded' = <<>>
    /\ c' = <<>>
    /\ calls' = calls + 1
    /\ pc_app' = "filter"
    /\ UNCHANGED <<refVars, loadVars>>

NextAppend ==
    \/ AppendFilter
    \/ AppendAssert
    \/ AppendLongSize
    \/ AppendPreprocess
    \/ AppendReturn
    \/ AppendCall

SpecAppend == InitAppend /\ [][NextAppend]_vars

InitRef ==
    /\ pc_ref = "resize"
    /\ image_w \in 1..MaxDim
    /\ image_h \in 1..MaxDim
    /\ long_size \in LongSizes
    /\ new_w = 0 /\ new_h = 0
    /\ target_w = 0 /\ target_h = 0
    /\ left = 0 /\ top = 0 /\ right = 0 /\ bottom = 0
    /\ out_w = 0 /\ out_h = 0
    /\ AppIdle
    /\ LoadIdle

\* lines 162-173: the new size, and the resize to it
Resize ==
    /\ pc_ref = "resize"
    /\ LET n == NewSize(image_w, image_h, long_size) IN
       /\ new_w' = n[1]
       /\ new_h' = n[2]
       /\ pc_ref' = IF ResizeAccepts(n[1], n[2]) THEN "crop" ELSE "raised"
    /\ UNCHANGED <<image_w, image_h, long_size, target_w, target_h,
                   left, top, right, bottom, out_w, out_h>>
    /\ UNCHANGED <<appVars, loadVars>>

\* lines 174-184: the crop box and the crop
Crop ==
    /\ pc_ref = "crop"
    /\ target_w' = TargetDim(new_w)
    /\ target_h' = TargetDim(new_h)
    /\ left' = CropStart(new_w, target_w')
    /\ top' = CropStart(new_h, target_h')
    /\ right' = left' + target_w'
    /\ bottom' = top' + target_h'
    /\ out_w' = right' - left'
    /\ out_h' = bottom' - top'
    /\ pc_ref' = "convert"
    /\ UNCHANGED <<image_w, image_h, long_size, new_w, new_h>>
    /\ UNCHANGED <<appVars, loadVars>>

\* lines 187-188: convert("RGB") keeps the size; return
Convert ==
    /\ pc_ref = "convert"
    /\ pc_ref' = "done"
    /\ UNCHANGED <<image_w, image_h, long_size, new_w, new_h, target_w,
                   target_h, left, top, right, bottom, out_w, out_h>>
    /\ UNCHANGED <<appVars, loadVars>>

NextRef == Resize \/ Crop \/ Convert

SpecRef == InitRef /\ [][NextRef]_vars

\* lines 57-62: the two state dicts are extracted and loaded
InitLoad ==
    /\ RefIdle
    /\ AppIdle
    /\ pc_load = "strip"
    /\ base_sd \in Dicts("base", BaseKeys, MaxKeys)
    /\ lora_sd \in Dicts("lora", LoraKeys, MaxKeys)
    /\ sd = base_sd
    /\ uno_sd = lora_sd
    /\ key_prefix = <<>>
    /\ unet_dtype = "unset"
    /\ loaded = <<>>

\* lines 65-66: the prefix is detected and stripped
LoadStrip ==
    /\ pc_load = "strip"
    /\ key_prefix' \in Prefixes
    /\ sd' = StateDictPrefixReplace(sd, key_prefix')
    /\ pc_load' = "detect"
    /\ UNCHANGED <<base_sd, lora_sd, uno_sd, unet_dtype, loaded>>
    /\ UNCHANGED <<refVars, appVars>>

\* lines 67-76: detect_unet_config finds a configuration or None, and the
\* assertion of line 69 stops the load on None
LoadDetect ==
    /\ pc_load = "detect"
    /\ \E found \in BOOLEAN :
          pc_load' = IF found THEN "reconcile" ELSE "failed"
    /\ UNCHANGED <<base_sd, lora_sd, sd, uno_sd, key_prefix, unet_dtype, loaded>>
    /\ UNCHANGED <<refVars, appVars>>

\* lines 79-84
LoadReconcile ==
    /\ pc_load = "reconcile"
    /\ IF Len(sd) > 0
       THEN LET dtype == sd[1].v.dtype
                device == sd[1].v.device
            IN /\ unet_dtype' = dtype
               /\ uno_sd' = ConvertAll(uno_sd, dtype, device)
       ELSE UNCHANGED <<unet_dtype, uno_sd>>
    /\ pc_load' = "merge"
    /\ UNCHANGED <<base_sd, lora_sd, sd, key_prefix, loaded>>
    /\ UNCHANGED <<refVars, appVars>>

\* lines 87-88: merge and load
LoadMerge ==
    /\ pc_load = "merge"
    /\ sd' = Update(sd, uno_sd)
    /\ loaded' = sd'
    /\ pc_load' = "done"
    /\ UNCHANGED <<base_sd, lora_sd, uno_sd, key_prefix, unet_dtype>>
    /\ UNCHANGED <<refVars, appVars>>

NextLoad == LoadStrip \/ LoadDetect \/ LoadReconcile \/ LoadMerge

SpecLoad == InitLoad /\ [][NextLoad]_vars

(***************************************************************************)
(* Properties of preprocess_ref, checked under SpecRef.                    *)
(***************************************************************************)
\* C1: the image preprocess_ref returns has a width and a height that are
\* multiples of 16, each the largest multiple of 16 that does not exceed
\* the resized dimension (new - 15 <= target <= new).
TileAlignment ==
    pc_ref = "done" =>
        /\ out_w % 16 = 0 /\ out_h % 16 = 0
        /\ new_w - 15 <= out_w /\ out_w <= new_w
        /\ new_h - 15 <= out_h /\ out_h <= new_h

\* a returned image both of whose sides were really cut down to a tile
\* multiple
TileAlignmentWitness ==
    /\ pc_ref = "done"
    /\ 0 < out_h /\ out_h < new_h
    /\ 0 < out_w /\ out_w < new_w

\* C2: the longer side becomes exactly long_size and the other side
\* floor(long_size * short / long), that is
\* new_short * long <= long_size * short < (new_short + 1) * long;
\* a square input is resized to long_size x long_size.
AspectPreservingResize ==
    pc_ref \in {"crop", "convert", "done", "raised"} =>
        LET long == IF image_w >= image_h THEN image_w ELSE image_h
            short == IF image_w >= image_h THEN image_h ELSE image_w
            new_long == IF image_w >= image_h THEN new_w ELSE new_h
            new_short == IF image_w >= image_h THEN new_h ELSE new_w
        IN /\ new_long = long_size
           /\ new_short * long <= long_size * short
           /\ long_size * short < (new_short + 1) * long
           /\ image_w = image_h => new_w = long_size /\ new_h = long_size

\* C7: the crop box lies inside the resized image, removes at most 15
\* pixels per axis and is centred: the margin before the box and the margin
\* after it differ by at most 1, the leading one never being the larger.
CentreCrop ==
    pc_ref \in {"convert", "done"} =>
        /\ 0 <= left /\ 0 <= top /\ right <= new_w /\ bottom <= new_h
        /\ left <= right /\ top <= bottom
        /\ new_w - (right - left) <= 15
        /\ new_h - (bottom - top) <= 15
        /\ left <= new_w - right /\ (new_w - right) - left <= 1
        /\ top <= new_h - bottom /\ (new_h - bottom) - top <= 1

\* a crop that removes an odd number of rows: the two margins differ
CentreCropWitness ==
    /\ pc_ref = "done"
    /\ top > 0
    /\ new_h - bottom = top + 1

(***************************************************************************)
(* Properties of UnoConditioning.append, checked under SpecAppend.         *)
(***************************************************************************)
\* the slots that were supplied
Supplied == {i \in Slots : slots[i] # None}

\* C3: with k >= 1 slots supplied the returned conditioning has ref_img set,
\* in each of its entries, to a list of exactly k latents, one per supplied
\* image in increasing slot order, without gaps.
MultiImageConditioning ==
    (pc_app = "done" /\ Supplied # {}) =>
        /\ Len(c) = Len(conditioning)
        /\ \A e \in 1..Len(c) :
              /\ c[e].t0 = conditioning[e].t0
              /\ c[e].has_ref
              /\ Len(c[e].ref_img) = Cardinality(Supplied)
              /\ {c[e].ref_img[j].of : j \in 1..Len(c[e].ref_img)} = Supplied
              /\ \A j \in 1..(Len(c[e].ref_img) - 1) :
                    c[e].ref_img[j].of < c[e].ref_img[j + 1].of

\* three images around an empty slot, set on a conditioning that already
\* carried a ref_img list of another length
MultiImageConditioningWitness ==
    /\ pc_app = "done"
    /\ Supplied = {1, 3, 4}
    /\ Len(c) = 2
    /\ conditioning[1].has_ref /\ Len(conditioning[1].ref_img) = 1
    /\ Len(c[2].ref_img) = 3

\* C6: every reference image of one call is preprocessed with the same
\* long_size, 512 when at most one image is supplied and 320 otherwise,
\* whichever the slots are.
LongSideSelection ==
    pc_app \in {"preprocess", "set", "done", "raised"} =>
        LET expected == IF Cardinality(Supplied) <= 1 THEN 512 ELSE 320
        IN /\ app_long_size = expected
           /\ \A j \in 1..Len(preprocessed) :
                 preprocessed[j].long_size = expected

\* two images, neither in the first slot, both preprocessed
LongSideSelectionWitness ==
    /\ pc_app = "done"
    /\ Supplied = {2, 4}
    /\ Len(preprocessed) = 2
    /\ preprocessed[1].long_size = 320

\* C8: if any supplied image has a batch dimension other than 1, append
\* stops at the assertions: nothing is preprocessed, vae.encode is not
\* called and no conditioning is returned, whichever image it is.
BatchCheckBeforeWork ==
    (\E i \in Supplied : slots[i].batch # 1) =>
        /\ pc_app \in {"filter", "assert", "failed"}
        /\ preprocessed = <<>>
        /\ encoded = <<>>

\* the assertion failed on the last of three images, the first two passing
BatchCheckBeforeWorkWitness ==
    /\ pc_app = "failed"
    /\ Supplied = {1, 2, 4}
    /\ slots[1].batch = 1 /\ slots[2].batch = 1 /\ slots[4].batch = 2
    /\ idx = 3

\* C9 as stated: with all four slots None append returns the conditioning
\* it was given, unchanged and without a ref_img value, and vae.encode is
\* never called.
NoRefNoEffectWithoutRef ==
    (pc_app = "done" /\ Supplied = {}) =>
        /\ c = conditioning
        /\ \A e \in 1..Len(c) : ~c[e].has_ref
        /\ encoded = <<>>

\* C9 as amended: with all four slots None append returns the conditioning
\* it was given, unchanged (its ref_img value, if the given conditioning
\* carried one, included), and neither preprocess_ref nor vae.encode is
\* called.
NoRefNoEffect ==
    (pc_app = "done" /\ Supplied = {}) =>
        /\ c = conditioning
        /\ preprocessed = <<>>
        /\ encoded = <<>>

\* a call without images on a conditioning that carries ref_img
NoRefNoEffectWitness ==
    /\ pc_app = "done"
    /\ Supplied = {}
    /\ Len(conditioning) = 2
    /\ conditioning[1].has_ref /\ Len(conditioning[1].ref_img) = 2
    /\ c = conditioning

(***************************************************************************)
(* Properties of UnoFluxModelLoader.loadmodel, checked under SpecLoad.     *)
(***************************************************************************)
\* the base keys that start with the detected prefix
KeptBaseKeys == {k \in Keys(base_sd) : StartsWith(k, key_prefix)}

\* C4: whenever the prefix-stripped base state dict is non-empty, every
\* tensor of the merged state dict, from the base checkpoint or from the
\* LoRA file, has the same dtype and the same device, and
\* model_config.unet_config['dtype'] is that dtype.
DTypeDeviceConsistent ==
    (pc_load = "done" /\ KeptBaseKeys # {}) =>
        /\ \A i, j \in 1..Len(loaded) :
              /\ loaded[i].v.dtype = loaded[j].v.dtype
              /\ loaded[i].v.device = loaded[j].v.device
        /\ \A i \in 1..Len(loaded) : unet_dtype = loaded[i].v.dtype

\* C5: the state dict loaded has as keys the union of the prefix-stripped
\* base keys and the LoRA keys; a key of both takes the LoRA value, a base
\* key absent from the LoRA file keeps its base value, and base keys
\* without the prefix are dropped.
WeightMerge ==
    pc_load = "done" =>
        /\ Keys(loaded) =
              {Strip(k, key_prefix) : k \in KeptBaseKeys} \cup Keys(lora_sd)
        /\ Cardinality(Keys(loaded)) = Len(loaded)
        /\ \A k \in Keys(lora_sd) :
              /\ Get(loaded, k).src = "lora"
              /\ Get(loaded, k).name = k
        /\ \A k \in KeptBaseKeys :
              Strip(k, key_prefix) \notin Keys(lora_sd) =>
                  Get(loaded, Strip(k, key_prefix)) = Get(base_sd, k)
        /\ \A k \in Keys(base_sd) \ KeptBaseKeys :
              \A i \in 1..Len(loaded) :
                  ~(loaded[i].v.src = "base" /\ loaded[i].v.name = k)

\* a merge with a key of both files, a base key of its own and a base key
\* without the prefix
WeightMergeWitness ==
    /\ pc_load = "done"
    /\ key_prefix = <<"model", "diffusion_model">>
    /\ Keys(base_sd) = BaseKeys
    /\ Keys(lora_sd) = LoraKeys
    /\ Len(loaded) = 3
    /\ Get(loaded, <<"a">>).src = "lora"
    /\ Get(loaded, <<"b">>).src = "base"

====
